---------------------------- MODULE Spec2Model ----------------------------
(***************************************************************************)
(* A model of inferno/io/box/camvid.py: the CamVid dataset indexer         *)
(* (make_dataset, CamVid.__init__, __getitem__, __len__) and the label     *)
(* codec (label_to_long_tensor, label_to_pil_image).                       *)
(*                                                                         *)
(* Strings are sequences of one-character strings, so that str.replace,    *)
(* str comparison and os.path.join are computed character by character.    *)
(* Tensors and arrays are records [shape, data] with data in row-major     *)
(* (contiguous) order.                                                     *)
(***************************************************************************)
EXTENDS Integers, Sequences, FiniteSets, TLC

VARIABLES
    fs,               \* the directory tree on disk: [dirs, files], sets of paths
    status,           \* "new" | "ok" | "KeyError" | "NotImplementedError"
    attrs,            \* names of the attributes of self assigned so far
    root_directory,   \* self.root_directory
    split,            \* self.split
    transforms,       \* which of image_/label_/joint_transform are not None
    image_paths,      \* self.image_paths
    call,             \* the last call made on the dataset: [op, arg, index]
    ret,              \* what that call returned or raised
    label,            \* codec input: a class-index map (2-D LongTensor)
    pic,              \* codec input: a single-channel label image
    encoded,          \* label_to_pil_image(label), once computed
    roundtrip,        \* label_to_long_tensor(encoded), once computed
    decoded           \* label_to_long_tensor(pic), once computed

vars == <<fs, status, attrs, root_directory, split, transforms, image_paths,
          call, ret, label, pic, encoded, roundtrip, decoded>>

datasetVars == <<fs, status, attrs, root_directory, split, transforms,
                 image_paths, call, ret>>
codecVars == <<label, pic, encoded, roundtrip, decoded>>

---------------------------------------------------------------------------
(* Strings *)

\* The printable ASCII characters in code point order, from the space (32);
\* punctuation that no path of the model uses stands under its name chr<code>.
Ascii ==
    <<" ", "chr33", "chr34", "chr35", "chr36", "chr37", "chr38", "chr39",
      "chr40", "chr41", "chr42", "chr43", "chr44", "-", ".", "/", "0", "1",
      "2", "3", "4", "5", "6", "7", "8", "9", "chr58", "chr59", "chr60",
      "chr61", "chr62", "chr63", "chr64", "A", "B", "C", "D", "E", "F",
      "G", "H", "I", "J", "K", "L", "M", "N", "O", "P", "Q", "R", "S", "T",
      "U", "V", "W", "X", "Y", "Z", "chr91", "chr92", "chr93", "chr94",
      "_", "chr96", "a", "b", "c", "d", "e", "f", "g", "h", "i", "j", "k",
      "l", "m", "n", "o", "p", "q", "r", "s", "t", "u", "v", "w", "x", "y",
      "z", "chr123", "chr124", "chr125", "chr126">>

\* ord(c)
Ord(c) == 31 + (CHOOSE i \in 1..Len(Ascii) : Ascii[i] = c)

\* a < b on str: the first differing code point decides, a proper prefix is less
RECURSIVE StrLess(_, _)
StrLess(a, b) ==
    IF a = <<>> THEN b # <<>>
    ELSE IF b = <<>> THEN FALSE
    ELSE IF Head(a) = Head(b) THEN StrLess(Tail(a), Tail(b))
    ELSE Ord(Head(a)) < Ord(Head(b))

StartsWith(s, prefix) ==
    Len(prefix) <= Len(s) /\ SubSeq(s, 1, Len(prefix)) = prefix

EndsWith(s, suffix) ==
    Len(suffix) <= Len(s) /\ SubSeq(s, Len(s) - Len(suffix) + 1, Len(s)) = suffix

\* s.replace(old, new) for a non-empty old: every non-overlapping occurrence,
\* scanning from the left
RECURSIVE Replace(_, _, _)
Replace(s, old, new) ==
    IF Len(s) < Len(old) THEN s
    ELSE IF SubSeq(s, 1, Len(old)) = old
         THEN new \o Replace(SubSeq(s, Len(old) + 1, Len(s)), old, new)
         ELSE <<Head(s)>> \o Replace(Tail(s), old, new)

Sep == <<"/">>

\* os.path.join(a, b) for a relative b
PathJoin(a, b) ==
    IF a = <<>> THEN b
    ELSE IF EndsWith(a, Sep) THEN a \o b
    ELSE a \o Sep \o b

\* sorted(S) for a collection of distinct strings
RECURSIVE Sorted(_)
Sorted(S) ==
    IF S = {} THEN <<>>
    ELSE LET m == CHOOSE x \in S : \A y \in S : x = y \/ StrLess(x, y)
         IN  <<m>> \o Sorted(S \ {m})

RECURSIVE Concat(_)
Concat(ss) == IF ss = <<>> THEN <<>> ELSE Head(ss) \o Concat(Tail(ss))

Range(s) == {s[i] : i \in 1..Len(s)}

\* every ordering of the finite set S
Permutations_(S) ==
    {p \in [1..Cardinality(S) -> S] : \A i, j \in 1..Cardinality(S) : p[i] = p[j] => i = j}

---------------------------------------------------------------------------
(* Names *)

Train == <<"t", "r", "a", "i", "n">>
Val   == <<"v", "a", "l">>
Test  == <<"t", "e", "s", "t">>
Annot == <<"a", "n", "n", "o", "t">>

\* a mapping with one synonym sent to the wrong split
SPLIT_NAME_MAPPING_wrong ==
    (Train :> Train)
    @@ (<<"t", "r", "a", "i", "n", "i", "n", "g">> :> Train)
    @@ (<<"v", "a", "l", "i", "d", "a", "t", "e">> :> Train)
    @@ (Val :> Val)
    @@ (<<"v", "a", "l", "i", "d", "a", "t", "i", "o", "n">> :> Val)
    @@ (Test :> Test)
    @@ (<<"t", "e", "s", "t", "i", "n", "g">> :> Test)

SPLIT_NAME_MAPPING ==
    (Train :> Train)
    @@ (<<"t", "r", "a", "i", "n", "i", "n", "g">> :> Train)
    @@ (<<"v", "a", "l", "i", "d", "a", "t", "e">> :> Val)
    @@ (Val :> Val)
    @@ (<<"v", "a", "l", "i", "d", "a", "t", "i", "o", "n">> :> Val)
    @@ (Test :> Test)
    @@ (<<"t", "e", "s", "t", "i", "n", "g">> :> Test)

\* torchvision.datasets.folder.IMG_EXTENSIONS (the lower-case ones used here)
IMG_EXTENSIONS == {<<".", "p", "n", "g">>, <<".", "j", "p", "g">>}

is_image_file(fname) == \E ext \in IMG_EXTENSIONS : EndsWith(fname, ext)

---------------------------------------------------------------------------
(* The directory trees the dataset is built over *)

MaxIndex == 4

Roots == {<<"d">>, <<"v", "a", "l", "2">>}
Splits == {Train, Val, Test}
TopNames == {<<"a", ".", "p", "n", "g">>, <<"b", ".", "j", "p", "g">>,
             <<"n", ".", "t", "x", "t">>}
SubDir == <<"s">>
SubNames == {<<"c", ".", "p", "n", "g">>}

\* what a constructor may be given as `split`: the seven keys and a stranger
SplitArgs == (DOMAIN SPLIT_NAME_MAPPING) \cup {<<"d", "e", "v">>}

\* The tree root/<sp>/{top files, s/{sub files}} with root/<sp>annot/ beside it,
\* holding the label files `labels`; hasSub says whether the directory s exists.
Tree(root, sp, top, hasSub, sub, labels) ==
    LET imgDir == PathJoin(root, sp)
        annDir == PathJoin(root, sp \o Annot)
    IN  [dirs  |-> {root, imgDir, annDir}
                   \cup (IF hasSub
                         THEN {PathJoin(imgDir, SubDir), PathJoin(annDir, SubDir)}
                         ELSE {}),
         files |-> {PathJoin(imgDir, f) : f \in top}
                   \cup {PathJoin(PathJoin(imgDir, SubDir), f) : f \in sub}
                   \cup labels]

\* the label files a well-formed tree holds for these images
LabelsFor(root, sp, top, sub) ==
    LET annDir == PathJoin(root, sp \o Annot)
    IN  {PathJoin(annDir, f) : f \in {g \in top : is_image_file(g)}}
        \cup {PathJoin(PathJoin(annDir, SubDir), f) : f \in {g \in sub : is_image_file(g)}}

\* which of image_transform, label_transform, joint_transform a constructor
\* is given
TransformArgs ==
    {<<FALSE, FALSE, FALSE>>, <<TRUE, FALSE, TRUE>>, <<FALSE, TRUE, FALSE>>,
     <<TRUE, TRUE, TRUE>>}

---------------------------------------------------------------------------
(* make_dataset *)

\* the names of the entries of directory d among the paths P
NamesIn(d, P) ==
    {SubSeq(p, Len(d) + 2, Len(p)) :
        p \in {q \in P : /\ StartsWith(q, d \o Sep)
                         /\ Len(q) > Len(d) + 1
                         /\ \A i \in (Len(d) + 2)..Len(q) : q[i] # "/"}}

\* a walk that does not descend
WalkDirs_flat(top) == {d \in fs.dirs : d = top}

\* the directories os.walk(top) visits: top, when it exists, and all below it
WalkDirs(top) == {d \in fs.dirs : d = top \/ StartsWith(d, top \o Sep)}

\* The orders in which the file system may list the file names of each
\* visited directory (os.walk takes them as os.scandir yields them).
Listings(top) ==
    {l \in [WalkDirs(top) ->
                UNION {Permutations_(NamesIn(d, fs.files)) : d \in WalkDirs(top)}] :
        \A d \in WalkDirs(top) : l[d] \in Permutations_(NamesIn(d, fs.files))}

\* os.walk(top): the triples (root, dirs, fnames); the order of the triples
\* does not matter, sorted() reorders them.
os_walk(top, listing) ==
    {<<d, NamesIn(d, fs.dirs), listing[d]>> : d \in WalkDirs(top)}

\* sorted(os.walk(dir)): tuples compare by their first component, the
\* directory path, which is different in every triple.
sorted_walk(W) ==
    LET roots == Sorted({t[1] : t \in W})
    IN  [i \in 1..Len(roots) |-> CHOOSE t \in W : t[1] = roots[i]]

\* the inner loop: the image files of one directory, in listing order
images_of(root, fnames) ==
    LET kept == SelectSeq(fnames, is_image_file)
    IN  [i \in 1..Len(kept) |-> PathJoin(root, kept[i])]

make_dataset(dir, listing) ==
    LET walk == sorted_walk(os_walk(dir, listing))
    IN  Concat([i \in 1..Len(walk) |-> images_of(walk[i][1], walk[i][3])])

---------------------------------------------------------------------------
(* CamVid *)

NoImage == [path |-> <<>>, by |-> <<>>]
NoCall == [op |-> "none", split |-> <<>>, index |-> 0, download |-> FALSE]
\* calls: the collaborators called, in order; opened: the path given to Image.open
NoRet == [kind |-> "none", exc |-> "", image |-> NoImage, label |-> NoImage,
          len |-> 0, calls |-> <<>>, opened |-> <<>>]

Raise(exc, calls, opened) ==
    [NoRet EXCEPT !.kind = "raise", !.exc = exc, !.calls = calls, !.opened = opened]

\* a decoded image file
Loaded(path) == [path |-> path, by |-> <<>>]
\* t(x) for a transform t
Apply(t, x) == [x EXCEPT !.by = Append(@, t)]

\* path.replace(self.split, self.split + 'annot')
label_path(path) == Replace(path, split, split \o Annot)

\* CamVid.__init__; t says which of image_transform, label_transform and
\* joint_transform are given. assert_ raises the exception it is handed
\* (KeyError) before any attribute is set; download() raises once the split
\* and the transforms are stored.
Construct(root, sp, t, download) ==
    /\ status = "new"
    /\ call' = [op |-> "init", split |-> sp, index |-> 0, download |-> download]
    /\ IF sp \notin DOMAIN SPLIT_NAME_MAPPING
       THEN /\ status' = "KeyError"
            /\ UNCHANGED <<attrs, root_directory, split, transforms, image_paths>>
       ELSE /\ root_directory' = root
            /\ split' = SPLIT_NAME_MAPPING[sp]
            /\ transforms' = [image |-> t[1], label |-> t[2], joint |-> t[3]]
            /\ IF download
               THEN /\ status' = "NotImplementedError"
                    /\ attrs' = {"root_directory", "split", "image_loader",
                                 "image_transform", "label_transform",
                                 "joint_transform"}
                    /\ UNCHANGED image_paths
               ELSE /\ status' = "ok"
                    /\ attrs' = {"root_directory", "split", "image_loader",
                                 "image_transform", "label_transform",
                                 "joint_transform", "image_paths"}
                    /\ \E listing \in Listings(PathJoin(root, SPLIT_NAME_MAPPING[sp])) :
                          image_paths' =
                              make_dataset(PathJoin(root, SPLIT_NAME_MAPPING[sp]), listing)
    /\ UNCHANGED <<fs, ret>>
    /\ UNCHANGED codecVars

\* self.image_paths[index]: a list index, counted from the end when negative
\* an index check that takes no negative index
InList_nonneg(l, index) == 0 <= index /\ index < Len(l)

InList(l, index) == -Len(l) <= index /\ index < Len(l)
ListItem(l, index) == IF index >= 0 THEN l[index + 1] ELSE l[Len(l) + index + 1]

\* the transforms with joint_transform applied first
transformed_jointfirst(image, lbl) ==
    LET image1 == IF transforms.joint THEN Apply("joint_transform", image) ELSE image
        label1 == IF transforms.joint THEN Apply("joint_transform", lbl) ELSE lbl
        image2 == IF transforms.image THEN Apply("image_transform", image1) ELSE image1
        label2 == IF transforms.label THEN Apply("label_transform", label1) ELSE label1
        calls  == <<"image_loader", "Image.open">>
                  \o (IF transforms.joint THEN <<"joint_transform">> ELSE <<>>)
                  \o (IF transforms.image THEN <<"image_transform">> ELSE <<>>)
                  \o (IF transforms.label THEN <<"label_transform">> ELSE <<>>)
    IN  [NoRet EXCEPT !.kind = "return", !.image = image2, !.label = label2,
                      !.calls = calls, !.opened = lbl.path]

\* the transforms of __getitem__, applied to the loaded pair
transformed(image, lbl) ==
    LET image1 == IF transforms.image THEN Apply("image_transform", image) ELSE image
        label1 == IF transforms.label THEN Apply("label_transform", lbl) ELSE lbl
        image2 == IF transforms.joint THEN Apply("joint_transform", image1) ELSE image1
        label2 == IF transforms.joint THEN Apply("joint_transform", label1) ELSE label1
        calls  == <<"image_loader", "Image.open">>
                  \o (IF transforms.image THEN <<"image_transform">> ELSE <<>>)
                  \o (IF transforms.label THEN <<"label_transform">> ELSE <<>>)
                  \o (IF transforms.joint THEN <<"joint_transform">> ELSE <<>>)
    IN  [NoRet EXCEPT !.kind = "return", !.image = image2, !.label = label2,
                      !.calls = calls, !.opened = lbl.path]

\* CamVid.__getitem__
getitem(index) ==
    IF ~InList(image_paths, index) THEN Raise("IndexError", <<>>, <<>>)
    ELSE LET path == ListItem(image_paths, index)
         IN  IF path \notin fs.files
             THEN Raise("FileNotFoundError", <<"image_loader">>, <<>>)
             ELSE IF label_path(path) \notin fs.files
             THEN Raise("FileNotFoundError", <<"image_loader", "Image.open">>,
                        label_path(path))
             ELSE transformed(Loaded(path), Loaded(label_path(path)))

Get(index) ==
    /\ status = "ok"
    /\ call' = [op |-> "getitem", split |-> <<>>, index |-> index, download |-> FALSE]
    /\ ret' = getitem(index)
    /\ UNCHANGED <<fs, status, attrs, root_directory, split, transforms, image_paths>>
    /\ UNCHANGED codecVars

\* CamVid.__len__
len_ == Len(image_paths)

Length ==
    /\ status = "ok"
    /\ call' = [op |-> "len", split |-> <<>>, index |-> 0, download |-> FALSE]
    /\ ret' = [NoRet EXCEPT !.kind = "return", !.len = len_]
    /\ UNCHANGED <<fs, status, attrs, root_directory, split, transforms, image_paths>>
    /\ UNCHANGED codecVars

---------------------------------------------------------------------------
(* Tensors, arrays and images *)

\* a tensor or array: its shape and its elements in row-major order
NoTensor == [shape |-> <<>>, data |-> <<>>]
\* a PIL image: size is (width, height), bytes is what tobytes() gives
NoPic == [mode |-> "", size |-> <<0, 0>>, bytes |-> <<>>]
\* what a codec function returned (a tensor or an image) or raised
NoResult == [kind |-> "none", exc |-> "", tensor |-> NoTensor, pic |-> NoPic]

ReturnTensor(t) == [NoResult EXCEPT !.kind = "return", !.tensor = t]
ReturnPic(p) == [NoResult EXCEPT !.kind = "return", !.pic = p]
RaiseCodec(exc) == [NoResult EXCEPT !.kind = "raise", !.exc = exc]

\* the elements f[1], ..., f[n] of a function on 1..n, held as a tuple
Stored(f) == SubSeq(f, 1, Len(f))

RECURSIVE Numel(_)
Numel(shape) == IF shape = <<>> THEN 1 ELSE Head(shape) * Numel(Tail(shape))

\* the flat offset (from 0) of the element at multi-index idx (from 0)
RECURSIVE Ravel(_, _)
Ravel(idx, shape) ==
    IF shape = <<>> THEN 0
    ELSE idx[1] * Numel(Tail(shape)) + Ravel(Tail(idx), Tail(shape))

\* the multi-index of the element at flat offset k
RECURSIVE Unravel(_, _)
Unravel(k, shape) ==
    IF shape = <<>> THEN <<>>
    ELSE <<k \div Numel(Tail(shape))>> \o Unravel(k % Numel(Tail(shape)), Tail(shape))

\* the tensor with axis i of the result being axis perm[i] of t (axes from 0)
Permute(t, perm) ==
    LET shape == [i \in 1..Len(perm) |-> t.shape[perm[i] + 1]]
    IN  [shape |-> shape,
         data  |-> Stored([k \in 1..Numel(shape) |->
                       LET idx == Unravel(k - 1, shape)
                           src == [a \in 1..Len(perm) |->
                                      idx[CHOOSE i \in 1..Len(perm) : perm[i] + 1 = a]]
                       IN  t.data[Ravel(src, t.shape) + 1]])]

\* Tensor.transpose(dim0, dim1)
transpose(t, dim0, dim1) ==
    Permute(t, [i \in 1..Len(t.shape) |->
                   IF i = dim0 + 1 THEN dim1
                   ELSE IF i = dim1 + 1 THEN dim0
                   ELSE i - 1])

\* a view that takes its last dimension from the number of elements
view_inferred(t, shape) ==
    ReturnTensor([shape |-> [i \in 1..Len(shape) |->
                                IF i = Len(shape)
                                THEN Numel(t.shape) \div Numel(SubSeq(shape, 1, Len(shape) - 1))
                                ELSE shape[i]],
                  data  |-> t.data])

\* Tensor.view(*shape): the same elements under another shape, an error when
\* the shape does not hold as many elements
view(t, shape) ==
    IF Numel(shape) = Numel(t.shape)
    THEN ReturnTensor([shape |-> shape, data |-> t.data])
    ELSE RaiseCodec("RuntimeError")

\* Tensor.squeeze(): every dimension of size 1 is dropped
squeeze(t) == [shape |-> SelectSeq(t.shape, LAMBDA n : n # 1), data |-> t.data]

\* Tensor.unsqueeze(0)
unsqueeze0(t) == [shape |-> <<1>> \o t.shape, data |-> t.data]

\* a tensor of ones
ones(shape) == [shape |-> shape, data |-> Stored([k \in 1..Numel(shape) |-> 1])]

\* torch.zeros(*shape)
zeros(shape) == [shape |-> shape, data |-> Stored([k \in 1..Numel(shape) |-> 0])]

\* Tensor.eq(value)
eq(t, value) ==
    [shape |-> t.shape, data |-> Stored([k \in 1..Len(t.data) |-> t.data[k] = value])]

\* t[j].masked_fill_(mask, value) for a t of shape (channels, h, w) and a mask
\* of h * w elements: the elements of channel j under the mask become value.
\* The mask has shape (1, h, w) and t[j] shape (h, w); the mask is taken
\* element by element, as the torch release the code was written for does.
masked_fill_channel(t, j, mask, value) ==
    LET plane == Numel(Tail(t.shape))
    IN  [t EXCEPT !.data =
            Stored([k \in 1..Len(t.data) |->
                       IF (k - 1) \div plane = j /\ mask.data[((k - 1) % plane) + 1]
                       THEN value
                       ELSE t.data[k]])]

\* Image.fromarray(array, mode) for a uint8 array: (h, w, 3) is RGB when no
\* mode is given, (h, w) is L
fromarray(array, mode) ==
    [mode  |-> IF mode # "" THEN mode
               ELSE IF Len(array.shape) = 3 /\ array.shape[3] = 3 THEN "RGB"
               ELSE "L",
     size  |-> <<array.shape[2], array.shape[1]>>,
     bytes |-> array.data]

---------------------------------------------------------------------------
(* The label codec *)

CAMVID_CLASS_COLORS ==
    << <<128, 128, 128>>,
       <<128, 0, 0>>,
       <<192, 192, 128>>,
       <<128, 64, 128>>,
       <<0, 0, 192>>,
       <<128, 128, 0>>,
       <<192, 128, 128>>,
       <<64, 64, 128>>,
       <<64, 0, 128>>,
       <<64, 64, 0>>,
       <<0, 128, 192>>,
       <<0, 0, 0>> >>

\* label_to_long_tensor
label_to_long_tensor(p) ==
    LET buffer == [shape |-> <<Len(p.bytes)>>, data |-> p.bytes]
        viewed == view(buffer, <<p.size[2], p.size[1], 1>>)
    IN  IF viewed.kind = "raise" THEN viewed
        ELSE ReturnTensor(squeeze(transpose(transpose(viewed.tensor, 0, 1), 0, 2)))

\* a paint that gives every channel the first component of the colour
paint_class_red(colored, mask, color) ==
    masked_fill_channel(
        masked_fill_channel(
            masked_fill_channel(colored, 0, mask, color[1]), 1, mask, color[1]),
        2, mask, color[1])

\* the inner loop of label_to_pil_image: for j in range(3)
paint_class(colored, mask, color) ==
    masked_fill_channel(
        masked_fill_channel(
            masked_fill_channel(colored, 0, mask, color[1]), 1, mask, color[2]),
        2, mask, color[3])

\* the outer loop: for i, color in enumerate(CAMVID_CLASS_COLORS), from class i on
RECURSIVE paint_classes(_, _, _)
paint_classes(colored, lbl, i) ==
    IF i >= Len(CAMVID_CLASS_COLORS) THEN colored
    ELSE paint_classes(paint_class(colored, eq(lbl, i), CAMVID_CLASS_COLORS[i + 1]),
                       lbl, i + 1)

\* label_to_pil_image
label_to_pil_image(lbl) ==
    LET lbl1    == unsqueeze0(lbl)
        colored == paint_classes(zeros(<<3, lbl1.shape[2], lbl1.shape[3]>>), lbl1, 0)
        npimg   == Permute(colored, <<1, 2, 0>>)
    IN  IF npimg.shape[3] = 1
        THEN ReturnPic(fromarray([shape |-> SubSeq(npimg.shape, 1, 2),
                                  data  |-> npimg.data], "L"))
        ELSE ReturnPic(fromarray(npimg, ""))

Encode ==
    /\ label # NoTensor
    /\ encoded.kind = "none"
    /\ encoded' = label_to_pil_image(label)
    /\ UNCHANGED <<label, pic, roundtrip, decoded>>
    /\ UNCHANGED datasetVars

\* the encoded image given to the decoder
DecodeEncoded ==
    /\ encoded.kind = "return"
    /\ roundtrip.kind = "none"
    /\ roundtrip' = label_to_long_tensor(encoded.pic)
    /\ UNCHANGED <<label, pic, encoded, decoded>>
    /\ UNCHANGED datasetVars

\* a label image, as read from disk, given to the decoder
DecodeLabel ==
    /\ pic # NoPic
    /\ decoded.kind = "none"
    /\ decoded' = label_to_long_tensor(pic)
    /\ UNCHANGED <<label, pic, encoded, roundtrip>>
    /\ UNCHANGED datasetVars

---------------------------------------------------------------------------
(* The dataset specification *)

CodecIdle ==
    /\ label = NoTensor
    /\ pic = NoPic
    /\ encoded = NoResult
    /\ roundtrip = NoResult
    /\ decoded = NoResult

Init ==
    /\ \E root \in Roots, sp \in Splits, top \in SUBSET TopNames, hasSub \in BOOLEAN :
          \E sub \in (IF hasSub THEN SUBSET SubNames ELSE {{}}) :
             \E labels \in SUBSET LabelsFor(root, sp, top, sub) :
                fs = Tree(root, sp, top, hasSub, sub, labels)
    /\ status = "new"
    /\ attrs = {}
    /\ root_directory = <<>>
    /\ split = <<>>
    /\ transforms = [image |-> FALSE, label |-> FALSE, joint |-> FALSE]
    /\ image_paths = <<>>
    /\ call = NoCall
    /\ ret = NoRet
    /\ CodecIdle

Next ==
    \/ \E root \in Roots \cap fs.dirs, sp \in SplitArgs, t \in TransformArgs,
            download \in BOOLEAN :
          Construct(root, sp, t, download)
    \/ \E index \in (-MaxIndex)..MaxIndex : Get(index)
    \/ Length

Spec == Init /\ [][Next]_vars

---------------------------------------------------------------------------
(* The codec specification *)

MaxPixels == 4

\* what an element of a class-index map may be: the twelve classes, and one
\* value on each side of them
Values == (-1)..Len(CAMVID_CLASS_COLORS)

\* the byte a value is stored as in a label image
ToByte(v) == v % 256

\* The inputs: a class-index map of h rows and w columns holding at most two
\* different values, and the single-channel image with the same pixels.
InitCodec ==
    /\ \E h, w \in 1..MaxPixels, v1, v2 \in Values :
          /\ h * w <= MaxPixels
          /\ v1 <= v2
          /\ \E data \in [1..(h * w) -> {v1, v2}] :
                /\ label = [shape |-> <<h, w>>, data |-> data]
                /\ pic = [mode |-> "L", size |-> <<w, h>>,
                          bytes |-> [k \in 1..(h * w) |-> ToByte(data[k])]]
    /\ encoded = NoResult
    /\ roundtrip = NoResult
    /\ decoded = NoResult
    /\ fs = [dirs |-> {}, files |-> {}]
    /\ status = "new"
    /\ attrs = {}
    /\ root_directory = <<>>
    /\ split = <<>>
    /\ transforms = [image |-> FALSE, label |-> FALSE, joint |-> FALSE]
    /\ image_paths = <<>>
    /\ call = NoCall
    /\ ret = NoRet

NextCodec ==
    \/ Encode
    \/ DecodeEncoded
    \/ DecodeLabel

SpecCodec == InitCodec /\ [][NextCodec]_vars

---------------------------------------------------------------------------
(* Properties of the dataset *)

\* the image file a call get(index) is about, when index is in the list
Indexed == ListItem(image_paths, call.index)

\* the image path with only its split segment root/<split> replaced by
\* root/<split>annot
SegmentReplaced(path) ==
    PathJoin(PathJoin(root_directory, split \o Annot),
             SubSeq(path, Len(PathJoin(root_directory, split)) + 2, Len(path)))

\* C1: for 0 <= i < length(), get(i) opens the label at the image path with
\* the split segment replaced by <split>annot and nothing else changed.
C1_LabelPathOnlySplitSegment ==
    (call.op = "getitem" /\ 0 <= call.index /\ call.index < Len(image_paths))
        => ret.opened = SegmentReplaced(Indexed)

Training   == <<"t", "r", "a", "i", "n", "i", "n", "g">>
Validate   == <<"v", "a", "l", "i", "d", "a", "t", "e">>
Validation == <<"v", "a", "l", "i", "d", "a", "t", "i", "o", "n">>
Testing    == <<"t", "e", "s", "t", "i", "n", "g">>

\* C2: right after a construction, a split name among the seven synonyms has
\* stored its canonical value (one of train, val, test), and any other name
\* has raised the validation error with no attribute, so no path list, set.
C2_SplitNormalised ==
    call.op = "init" =>
        /\ call.split \in {Train, Training} => ("split" \in attrs /\ split = Train)
        /\ call.split \in {Val, Validate, Validation} => ("split" \in attrs /\ split = Val)
        /\ call.split \in {Test, Testing} => ("split" \in attrs /\ split = Test)
        /\ call.split \notin {Train, Training, Val, Validate, Validation, Test, Testing}
              => (status = "KeyError" /\ attrs = {} /\ image_paths = <<>>)
        /\ (status = "ok" /\ ~call.download) =>
              call.split \in {Train, Training, Val, Validate, Validation, Test, Testing}

\* C2, witness: a synonym that is not its own canonical name, constructed over a tree with images
C2_Witness ==
    /\ call.op = "init"
    /\ call.split = Validate
    /\ status = "ok"
    /\ split = Val
    /\ Len(image_paths) > 0

\* the image files of the walked directories, directories in sorted order and
\* file names sorted within each directory
SortedImages(top) ==
    LET roots == Sorted(WalkDirs(top))
    IN  Concat([i \in 1..Len(roots) |->
                    LET names == Sorted({f \in NamesIn(roots[i], fs.files) :
                                            is_image_file(f)})
                    IN  [j \in 1..Len(names) |-> PathJoin(roots[i], names[j])]])

\* C3: the path list built at construction is ordered by directory and then
\* by file name within each directory, whatever order the file system lists
\* the file names in.
C3_PathsSortedByName ==
    status = "ok" => image_paths = SortedImages(PathJoin(root_directory, split))

\* C4 as stated: get(index) raises IndexError for every index outside
\* [0, length()), negative ones included.
C4_IndexErrorOutsideRange ==
    (call.op = "getitem" /\ (call.index < 0 \/ call.index >= Len(image_paths)))
        => (ret.kind = "raise" /\ ret.exc = "IndexError")

\* C4 as amended: get(index) raises IndexError, returning no sample, exactly
\* when index >= length() or index < -length(); an index in [-length(), 0)
\* is served as index + length().
C4_IndexErrorOutsideListRange ==
    call.op = "getitem" =>
        /\ (call.index >= Len(image_paths) \/ call.index < -Len(image_paths))
              => (ret.kind = "raise" /\ ret.exc = "IndexError"
                  /\ ret.image = NoImage /\ ret.label = NoImage)
        /\ (-Len(image_paths) <= call.index /\ call.index < Len(image_paths))
              => ~(ret.kind = "raise" /\ ret.exc = "IndexError")
        /\ (-Len(image_paths) <= call.index /\ call.index < 0 /\ ret.kind = "return")
              => ret.image.path = image_paths[Len(image_paths) + call.index + 1]

\* C4, witness: get(-1) on a list of two returns the second sample
C4_Witness ==
    /\ call.op = "getitem"
    /\ call.index = -1
    /\ Len(image_paths) = 2
    /\ ret.kind = "return"
    /\ ret.image.path = image_paths[2]

\* where x first stands in the sequence s (0 when it does not)
IndexOf(s, x) == IF x \in Range(s) THEN CHOOSE i \in 1..Len(s) : s[i] = x /\ \A j \in 1..(i - 1) : s[j] # x ELSE 0

Before(s, x, y) == (x \in Range(s) /\ y \in Range(s)) => IndexOf(s, x) < IndexOf(s, y)

\* C7: get(i) for an index in the list raises the not-found error and returns
\* neither image nor label when the derived label file is absent; when both
\* files exist it returns the pair, image_transform applied to the image,
\* label_transform to the label, joint_transform to both, in that order.
C7_NoPartialResult ==
    (call.op = "getitem" /\ InList(image_paths, call.index)) =>
        /\ (label_path(Indexed) \notin fs.files) =>
              /\ ret.kind = "raise" /\ ret.exc = "FileNotFoundError"
              /\ ret.image = NoImage /\ ret.label = NoImage
        /\ (Indexed \in fs.files /\ label_path(Indexed) \in fs.files) =>
              /\ ret.kind = "return"
              /\ ret.image = [path |-> Indexed,
                              by |-> (IF transforms.image THEN <<"image_transform">> ELSE <<>>)
                                     \o (IF transforms.joint THEN <<"joint_transform">> ELSE <<>>)]
              /\ ret.label = [path |-> label_path(Indexed),
                              by |-> (IF transforms.label THEN <<"label_transform">> ELSE <<>>)
                                     \o (IF transforms.joint THEN <<"joint_transform">> ELSE <<>>)]
              /\ Before(ret.calls, "image_transform", "label_transform")
              /\ Before(ret.calls, "image_transform", "joint_transform")
              /\ Before(ret.calls, "label_transform", "joint_transform")

\* C7, witness: a sample returned with all three transforms given
C7_Witness ==
    /\ call.op = "getitem"
    /\ ret.kind = "return"
    /\ transforms = [image |-> TRUE, label |-> TRUE, joint |-> TRUE]
    /\ ret.calls = <<"image_loader", "Image.open", "image_transform",
                     "label_transform", "joint_transform">>

\* the image files on disk below root/<split>/, at any depth
ImageFilesUnder(dir) ==
    {f \in fs.files : StartsWith(f, dir \o Sep) /\ is_image_file(f)}

\* C8: length() is the number of image files under root/<split>/, counted
\* recursively, 0 when there is none, and stays so after any calls.
C8_LengthCountsImages ==
    /\ status = "ok" =>
          Len(image_paths) = Cardinality(ImageFilesUnder(PathJoin(root_directory, split)))
    /\ call.op = "len" =>
          /\ ret.kind = "return"
          /\ ret.len = Cardinality(ImageFilesUnder(PathJoin(root_directory, split)))

\* C8, witness: length() of a dataset of three images, one of them in a sub-directory
C8_Witness ==
    /\ call.op = "len"
    /\ ret.len = 3
    /\ \E i \in 1..3 : StartsWith(image_paths[i],
                                  PathJoin(PathJoin(root_directory, split), SubDir) \o Sep)

---------------------------------------------------------------------------
(* Properties of the codec *)

Rows == label.shape[1]
Cols == label.shape[2]

\* the entry of the class-index map at row r, column c (from 0)
LabelAt(r, c) == label.data[r * Cols + c + 1]

\* the three channels of the pixel of an RGB image at row r, column c
PixelAt(p, r, c) ==
    LET o == 3 * (r * p.size[1] + c)
    IN  <<p.bytes[o + 1], p.bytes[o + 2], p.bytes[o + 3]>>

\* every entry of the map is a class index
InPalette == \A k \in 1..Len(label.data) : label.data[k] \in 0..11

\* C5 as stated: decoding the encoding of a map with entries in 0..11 gives
\* the map back.
C5_RoundTripRecovers ==
    (roundtrip.kind # "none" /\ InPalette)
        => (roundtrip.kind = "return" /\ roundtrip.tensor = label)

\* C5 as amended: the encoding of a map of h rows and w columns with entries
\* in 0..11 is an image of 3 * h * w bytes, and decoding it raises an error
\* and returns no map.
C5_RoundTripRaises ==
    (roundtrip.kind # "none" /\ InPalette) =>
        /\ Len(encoded.pic.bytes) = 3 * Rows * Cols
        /\ roundtrip.kind = "raise"
        /\ roundtrip.exc = "RuntimeError"
        /\ roundtrip.tensor = NoTensor

\* C5, witness: the round trip of a (2, 2) map with entries in 0..11 has been run
C5_Witness ==
    /\ roundtrip.kind = "raise"
    /\ InPalette
    /\ label.shape = <<2, 2>>
    /\ label.data = <<3, 3, 10, 3>>

\* C6 as stated: encoding a map with an entry outside 0..11 fails and returns
\* no image.
C6_EncodeRejectsOutOfPalette ==
    (encoded.kind # "none" /\ ~InPalette) => encoded.kind = "raise"

\* C6 as amended: encoding a map with an entry outside 0..11 returns an RGB
\* image of the map's height and width, in which the pixels of those entries
\* are (0, 0, 0), the colour of class 11, and every other pixel has the
\* colour of its class.
C6_EncodePaintsOutOfPaletteBlack ==
    (encoded.kind # "none" /\ ~InPalette) =>
        /\ encoded.kind = "return"
        /\ encoded.pic.mode = "RGB"
        /\ encoded.pic.size = <<Cols, Rows>>
        /\ \A r \in 0..(Rows - 1), c \in 0..(Cols - 1) :
              PixelAt(encoded.pic, r, c) =
                  IF LabelAt(r, c) \in 0..11
                  THEN CAMVID_CLASS_COLORS[LabelAt(r, c) + 1]
                  ELSE <<0, 0, 0>>

\* C6, witness: a map with an in-range and an out-of-range entry has been encoded
C6_Witness ==
    /\ encoded.kind = "return"
    /\ label.shape = <<1, 2>>
    /\ label.data = <<4, 12>>
    /\ encoded.pic.bytes = <<0, 0, 192, 0, 0, 0>>

\* C9: encoding a map of shape (h, w) with entries in 0..11 gives an RGB image
\* of height h and width w whose pixel (r, c) is the palette colour of entry
\* (r, c); an all-zero (2, 2) map gives (128, 128, 128) everywhere.
C9_EncodePaintsPalette ==
    (encoded.kind # "none" /\ InPalette) =>
        /\ encoded.kind = "return"
        /\ encoded.pic.mode = "RGB"
        /\ encoded.pic.size = <<Cols, Rows>>
        /\ Len(encoded.pic.bytes) = 3 * Rows * Cols
        /\ \A r \in 0..(Rows - 1), c \in 0..(Cols - 1) :
              PixelAt(encoded.pic, r, c) = CAMVID_CLASS_COLORS[LabelAt(r, c) + 1]
        /\ (label.shape = <<2, 2>> /\ label.data = <<0, 0, 0, 0>>) =>
              encoded.pic.bytes = <<128, 128, 128, 128, 128, 128,
                                    128, 128, 128, 128, 128, 128>>

\* C9, witness: a (2, 2) map of two classes has been encoded
C9_Witness ==
    /\ encoded.kind = "return"
    /\ label.shape = <<2, 2>>
    /\ label.data = <<1, 10, 10, 1>>
    /\ encoded.pic.bytes = <<128, 0, 0, 0, 128, 192, 0, 128, 192, 128, 0, 0>>

\* C10: decoding a single-channel image of width w and height h, w or h equal
\* to 1 included, gives a 2-D array of shape (h, w) whose entry (r, c) is the
\* byte of pixel (r, c).
C10_DecodeKeepsShape ==
    decoded.kind # "none" =>
        /\ decoded.kind = "return"
        /\ decoded.tensor.shape = <<pic.size[2], pic.size[1]>>
        /\ \A r \in 0..(pic.size[2] - 1), c \in 0..(pic.size[1] - 1) :
              decoded.tensor.data[r * pic.size[1] + c + 1]
                  = pic.bytes[r * pic.size[1] + c + 1]

==========================================================================
